---------------------------- MODULE Spec2Model ----------------------------
(***************************************************************************)
(* Constraint systems of the lawz circuits (circom): Progressive Tax,      *)
(* Means Test, Divorce Settlement, Payment Validation, Batch Payment       *)
(* Validation, Property Transfer.                                          *)
(*                                                                         *)
(* A witness is an assignment to the signals of one circuit.  A signal     *)
(* written with  <==  is computed from the signals before it and           *)
(* constrained to that value; a signal written with  <--  is only          *)
(* assigned: the witness generator computes it from the expression, but    *)
(* no constraint ties it to the expression, so a prover is free to put     *)
(* any field element there.  A witness is accepted iff every constraint    *)
(* (each  === , and the bit decomposition inside each comparator) holds.   *)
(*                                                                         *)
(* TLC's integers are 32 bits wide, so the field is a prime field of 25    *)
(* bits instead of the 254-bit field of the proving backend, comparators   *)
(* are Bits wide instead of 64, and money is counted in units of Scale     *)
(* (the bracket table of the source divided by Scale).  The arithmetic     *)
(* of every signal is the source's: field addition, multiplication and     *)
(* division (the operator / of circom is multiplication by the modular     *)
(* inverse).                                                               *)
(*                                                                         *)
(* Around the circuits: the Raast payment library (Haskell), and of the    *)
(* user interface the Zcash service with the document viewer and the       *)
(* document store, and the encryption service, whose async functions are   *)
(* modelled one turn of the event loop at a time.                          *)
(***************************************************************************)
EXTENDS Integers, FiniteSets, Sequences, TLC

VARIABLES circuit, by, inp, sig, raast, zcash, viewer, documents, fhe

\* The state of the user interface's payment path: the Zcash service, the
\* document viewer and the documents of the store.
ui == <<zcash, viewer, documents>>

\* The state of the services around the circuits: the payment library, the
\* user interface's payment path, the encryption service.
services == <<raast, ui, fhe>>

\* The state of a circuit request.
request == <<circuit, by, inp, sig>>

vars == <<circuit, by, inp, sig, raast, zcash, viewer, documents, fhe>>

---------------------------------------------------------------------------
(* Field arithmetic and signal layer                                       *)

\* The field prime (a 25-bit prime standing for the 254-bit prime).
P == 2^25 - 39

\* Width of every comparator (64 in the source).
Bits == 16

\* Unit of account of the model, in the source's units (paisa).
Scale == 10^5

Field == 0 .. (P - 1)

Add(a, b) == (a + b) % P

Sub(a, b) == (a + P - b) % P

Neg(a) == (P - a) % P

\* a * b mod P without leaving 32 bits: Horner over the 6-bit limbs of a.
RECURSIVE MulLimbs(_, _)
MulLimbs(a, b) ==
  IF a = 0 THEN 0
  ELSE (((MulLimbs(a \div 64, b) * 64) % P) + (((a % 64) * b) % P)) % P

Mul(a, b) == MulLimbs(a, b)

RECURSIVE Pow(_, _)
Pow(a, e) ==
  IF e = 0 THEN 1
  ELSE LET h == Pow(a, e \div 2)
           s == Mul(h, h)
       IN IF e % 2 = 1 THEN Mul(s, a) ELSE s

\* Modular inverse (Fermat), 0 for 0 as in circom's witness computation.
Inv(a) == IF a = 0 THEN 0 ELSE Pow(a, P - 2)

\* The denominators the circuits divide by.
Denominators == {2, 10, 15, 100}

InvTable == [d \in Denominators |-> Inv(d)]

\* circom's  a / d  on field elements: a times the inverse of d.
Div(a, d) == Mul(a, InvTable[d])

\* The signed reading circom's relational operators give a field element.
Val(x) == IF x > P \div 2 THEN x - P ELSE x

\* The field element of an integer.
Fe(i) == ((i % P) + P) % P

---------------------------------------------------------------------------
(* Primitive gate library (circomlib comparators)                          *)

\* Num2Bits(n): the input has a decomposition into n booleans iff it is
\* below 2^n; ok is that constraint, top the bit of weight 2^(n-1).
Num2Bits(n, x) == [ok |-> x < 2^n, top |-> (x \div 2^(n - 1)) % 2]

\* LessThan(n): decompose the biased difference in[0] + 2^n - in[1] into
\* n+1 bits and read the top bit.  The operands themselves are not
\* decomposed.
LessThan(n, a, b) ==
  LET n2b == Num2Bits(n + 1, Sub(Add(a, 2^n), b))
  IN [ok |-> n2b.ok, out |-> 1 - n2b.top]

LessEqThan(n, a, b) == LessThan(n, a, Add(b, 1))

GreaterThan(n, a, b) == LessThan(n, b, a)

GreaterEqThan(n, a, b) == LessThan(n, b, Add(a, 1))

\* IsZero: out = 1 - in * inv with in * out = 0.
IsZero(x) == IF x = 0 THEN 1 ELSE 0

IsEqual(a, b) == IsZero(Sub(a, b))

---------------------------------------------------------------------------
(* Progressive Tax circuit (TaxCalculation)                                *)

bracket1Limit == 60000000 \div Scale
bracket2Limit == 120000000 \div Scale
bracket3Limit == 240000000 \div Scale
bracket4Limit == 360000000 \div Scale

\* Credit per dependent: dependents * 1000000.
dependentCreditUnit == 1000000 \div Scale

\* Faulty variant: the unit at the ceiling already counts as excess.
ExcessFromCeiling(taxableIncome, limit) ==
  Sub(Add(taxableIncome, 1), limit)

\* excessOverBk <== taxableIncome - bracketkLimit
ExcessOver(taxableIncome, limit) == Sub(taxableIncome, limit)

\* Faulty variant: every tier is taxed at 5 percent.
TierTaxFlat(amount, rate) == Div(Mul(amount, 5), 100)

\* tax_i <== bracket_i Amount * rate / 100
TierTax(amount, rate) == Div(Mul(amount, rate), 100)

\* taxRate <-- ... : the value the witness generator assigns to the hint.
TaxRateHint(taxableIncome) ==
  IF Val(taxableIncome) < bracket1Limit THEN 0
  ELSE IF Val(taxableIncome) < bracket2Limit THEN 5
  ELSE IF Val(taxableIncome) < bracket3Limit THEN 15
  ELSE IF Val(taxableIncome) < bracket4Limit THEN 20
  ELSE 35

\* Faulty variant: the non-negativity check only feeds a flag, nothing is forced.
TaxFlagOnly(gtZeroOut) == gtZeroOut \in {0, 1}

\* The constraints of the template that are not signal definitions:
\* gtZero.out === 1.
TaxHardConstraints(gtZeroOut) == gtZeroOut = 1

\* Every signal of the template from the inputs and the hint taxRate.
TaxCalculation(income, totalDeductions, dependents, filingStatus, taxRate) ==
  LET taxableIncome == Sub(income, totalDeductions)
      gtZero == GreaterEqThan(Bits, taxableIncome, 0)
      inBracket1 == LessThan(Bits, taxableIncome, bracket1Limit)
      inBracket2 == LessThan(Bits, taxableIncome, bracket2Limit)
      inBracket3 == LessThan(Bits, taxableIncome, bracket3Limit)
      inBracket4 == LessThan(Bits, taxableIncome, bracket4Limit)
      b1Check == LessThan(Bits, taxableIncome, bracket1Limit)
      bracket1Amount == Add(Mul(b1Check.out, taxableIncome),
                            Mul(Sub(1, b1Check.out), bracket1Limit))
      excessOverB1 == ExcessOver(taxableIncome, bracket1Limit)
      b2Check == LessThan(Bits, taxableIncome, bracket2Limit)
      b2Taxable == Mul(excessOverB1, Sub(1, b1Check.out))
      bracket2Amount == Add(Mul(b2Check.out, b2Taxable),
                            Mul(Sub(1, b2Check.out), bracket2Limit - bracket1Limit))
      excessOverB2 == ExcessOver(taxableIncome, bracket2Limit)
      b3Check == LessThan(Bits, taxableIncome, bracket3Limit)
      b3Taxable == Mul(excessOverB2, Sub(1, b2Check.out))
      bracket3Amount == Add(Mul(b3Check.out, b3Taxable),
                            Mul(Sub(1, b3Check.out), bracket3Limit - bracket2Limit))
      excessOverB3 == ExcessOver(taxableIncome, bracket3Limit)
      b4Taxable == Mul(excessOverB3, Sub(1, b3Check.out))
      bracket4Amount == Add(Mul(inBracket4.out, b4Taxable),
                            Mul(Sub(1, inBracket4.out), bracket4Limit - bracket3Limit))
      excessOverB4 == ExcessOver(taxableIncome, bracket4Limit)
      b5Taxable == Mul(excessOverB4, Sub(1, inBracket4.out))
      bracket5Amount == b5Taxable
      tax1 == TierTax(bracket1Amount, 0)
      tax2 == TierTax(bracket2Amount, 5)
      tax3 == TierTax(bracket3Amount, 15)
      tax4 == TierTax(bracket4Amount, 20)
      tax5 == TierTax(bracket5Amount, 35)
      baseTax == Add(Add(Add(Add(tax1, tax2), tax3), tax4), tax5)
      dependentCredit == Mul(dependents, dependentCreditUnit)
      taxGtCredit == GreaterEqThan(Bits, baseTax, dependentCredit)
      finalTax == Mul(taxGtCredit.out, Sub(baseTax, dependentCredit))
      finalGtZero == GreaterEqThan(Bits, finalTax, 0)
  IN [taxableIncome |-> taxableIncome,
      gtZero |-> gtZero.out,
      bracketAmount |-> <<bracket1Amount, bracket2Amount, bracket3Amount,
                          bracket4Amount, bracket5Amount>>,
      tierTax |-> <<tax1, tax2, tax3, tax4, tax5>>,
      baseTax |-> baseTax,
      dependentCredit |-> dependentCredit,
      finalTax |-> finalTax,
      taxRate |-> taxRate,
      taxOwed |-> finalTax,
      taxBracket |-> taxRate,
      isValid |-> finalGtZero.out,
      accepted |-> /\ gtZero.ok /\ inBracket1.ok /\ inBracket2.ok
                   /\ inBracket3.ok /\ inBracket4.ok /\ b1Check.ok
                   /\ b2Check.ok /\ b3Check.ok /\ taxGtCredit.ok
                   /\ finalGtZero.ok
                   /\ TaxHardConstraints(gtZero.out)]

---------------------------------------------------------------------------
(* Means Test circuit (MeansTest)                                          *)

\* totalNeed <== annualDisposable + (calculatedNetWorth / 10)
\* Faulty variant: the net worth is left out of the need.
TotalNeedIncomeOnly(annualDisposable, calculatedNetWorth) == annualDisposable

TotalNeed(annualDisposable, calculatedNetWorth) ==
  Add(annualDisposable, Div(calculatedNetWorth, 10))

\* Faulty variant: a need equal to the threshold is eligible too.
IsEligInclusive(totalNeed, adjustedThreshold) ==
  LessEqThan(Bits, totalNeed, adjustedThreshold)

\* isElig = LessThan(64) on totalNeed and adjustedThreshold
IsElig(totalNeed, adjustedThreshold) ==
  LessThan(Bits, totalNeed, adjustedThreshold)

\* Faulty variant: the flag is computed but not constrained.
MeansDisposableFlagOnly(dispGtZeroOut) == dispGtZeroOut \in {0, 1}

\* dispGtZero.out === 1
MeansDisposableConstraint(dispGtZeroOut) == dispGtZeroOut = 1

\* Faulty variant: the product is computed but not constrained.
MeansEligibilityUnconstrained(eligibilityProduct, isEligible) ==
  eligibilityProduct \in {0, 1}

\* eligibilityProduct === isEligible
MeansEligibilityConstraint(eligibilityProduct, isEligible) ==
  eligibilityProduct = isEligible

MeansTest(in) ==
  LET monthlyDisposable == Sub(in.monthlyIncome, in.monthlyExpenses)
      dispGtZero ==
        GreaterEqThan(Bits, Add(monthlyDisposable, in.monthlyExpenses),
                      in.monthlyExpenses)
      annualDisposable == Mul(monthlyDisposable, 12)
      calculatedNetWorth == Sub(in.totalAssets, in.totalLiabilities)
      dependentAdjustment ==
        Div(Mul(Mul(in.eligibilityThreshold, in.dependents), 10), 100)
      adjustedThreshold == Add(in.eligibilityThreshold, dependentAdjustment)
      totalNeed == TotalNeed(annualDisposable, calculatedNetWorth)
      isElig == IsElig(totalNeed, adjustedThreshold)
      verifyNetWorth ==
        GreaterEqThan(Bits, in.totalAssets, in.totalLiabilities)
      isEligible == isElig.out
      eligibilityProduct == Mul(isEligible, verifyNetWorth.out)
  IN [monthlyDisposable |-> monthlyDisposable,
      dispGtZero |-> dispGtZero.out,
      annualDisposable |-> annualDisposable,
      calculatedNetWorth |-> calculatedNetWorth,
      adjustedThreshold |-> adjustedThreshold,
      totalNeed |-> totalNeed,
      verifyNetWorth |-> verifyNetWorth.out,
      eligibilityProduct |-> eligibilityProduct,
      isEligible |-> isEligible,
      disposableIncome |-> monthlyDisposable,
      netWorth |-> calculatedNetWorth,
      decomposed |-> dispGtZero.ok /\ isElig.ok /\ verifyNetWorth.ok,
      accepted |-> /\ dispGtZero.ok /\ isElig.ok /\ verifyNetWorth.ok
                   /\ MeansDisposableConstraint(dispGtZero.out)
                   /\ MeansEligibilityConstraint(eligibilityProduct,
                                                 isEligible)]

---------------------------------------------------------------------------
(* Divorce Settlement circuit (DivorceSettlement)                          *)

minAlimonyPercentage == 25
maxAlimonyPercentage == 33
assetContributionBonus == 10

\* alimonyPercentage <-- ... : the value the witness generator assigns.
AlimonyPercentageHint(in) ==
  Add(Add(minAlimonyPercentage, IF in.wifeIncome = 0 THEN 5 ELSE 0),
      IF Val(in.marriageDuration) > 10 THEN 3 ELSE 0)

\* wifeBonusPercentage <-- ... : the value the witness generator assigns.
WifeBonusPercentageHint(in) ==
  Add(Add(Add(50, Mul(in.wifeContributed, assetContributionBonus)),
          IF Val(in.marriageDuration) > 15 THEN 5 ELSE 0),
      Mul(Mul(in.faultDivorce, Sub(1, in.faultParty)), 10))

\* settlementNonNegative.out === 1
DivorceHardConstraints(settlementNonNegativeOut) ==
  settlementNonNegativeOut = 1

\* Every signal of the template from the inputs (the record in) and the
\* two hints alimonyPercentage and wifeBonusPercentage.
\* Faulty variant: the adjusted alimony is paid whatever the minimum.
AlimonyWithoutFloor(meetsMinimum, alimonyAdjusted, minimumMaintenance) == alimonyAdjusted

\* monthlyAlimony <== meetsMinimum.out * alimonyAdjusted
\*                      + (1 - meetsMinimum.out) * minimumMaintenance
MonthlyAlimony(meetsMinimum, alimonyAdjusted, minimumMaintenance) ==
  Add(Mul(meetsMinimum, alimonyAdjusted),
      Mul(Sub(1, meetsMinimum), minimumMaintenance))

\* Faulty variant: the alimony ceiling is left out of the product.
ValidWithoutAlimonyCeiling(wife, husband, alimony, child) ==
  Mul(Mul(wife, husband), child)

\* validSettlement <== wifeShareValid.out * husbandShareValid.out *
\*                     alimonyInBounds.out * childSupportReasonable.out
ValidSettlement(wife, husband, alimony, child) ==
  Mul(Mul(Mul(wife, husband), alimony), child)

DivorceSettlement(in, alimonyPercentage, wifeBonusPercentage, shareOutputs) ==
  LET alimonyBase == Div(Mul(in.husbandIncome, alimonyPercentage), 100)
      halfHusbandIncome == Div(in.husbandIncome, 2)
      wifeHasIncome == GreaterThan(Bits, in.wifeIncome, halfHusbandIncome)
      alimonyReduction ==
        Mul(wifeHasIncome.out, Div(Mul(alimonyBase, 30), 100))
      alimonyAdjusted == Sub(alimonyBase, alimonyReduction)
      meetsMinimum ==
        GreaterEqThan(Bits, alimonyAdjusted, in.minimumMaintenance)
      monthlyAlimony ==
        MonthlyAlimony(meetsMinimum.out, alimonyAdjusted,
                       in.minimumMaintenance)
      childSupportPerChild ==
        Div(Mul(in.husbandIncome, in.childSupportRate), 100)
      totalChildSupport == Mul(childSupportPerChild, in.numberOfChildren)
      wifeHasCustody == IsEqual(in.custodyToWife, 1)
      childSupportFromHusband == Mul(wifeHasCustody, totalChildSupport)
      wifeHasCustodyInverse == Sub(1, in.custodyToWife)
      childSupportFromWife ==
        Mul(Mul(wifeHasCustodyInverse,
                Div(Mul(in.wifeIncome, in.childSupportRate), 100)),
            in.numberOfChildren)
      monthlyChildSupport ==
        Sub(childSupportFromHusband, childSupportFromWife)
      totalAssets == Add(in.husbandAssets, in.wifeAssets)
      wifeAssetShare == Div(Mul(totalAssets, wifeBonusPercentage), 100)
      husbandAssetShare == Sub(totalAssets, wifeAssetShare)
      mehrNotPaid == GreaterThan(Bits, in.mehrAmount, in.mehrPaid)
      mehrBalance == Mul(mehrNotPaid.out, Sub(in.mehrAmount, in.mehrPaid))
      lumpSumAlimony == Mul(monthlyAlimony, 24)
      totalSettlement == Add(Add(mehrBalance, lumpSumAlimony), wifeAssetShare)
      wifeShareValid == GreaterEqThan(Bits, wifeAssetShare, 0)
      husbandShareValid == GreaterEqThan(Bits, husbandAssetShare, 0)
      alimonyCeiling == Div(Mul(in.husbandIncome, maxAlimonyPercentage), 100)
      alimonyInBounds == LessThan(Bits, monthlyAlimony, alimonyCeiling)
      childSupportCeiling == Div(Mul(in.husbandIncome, 60), 100)
      childSupportReasonable ==
        LessThan(Bits, monthlyChildSupport, childSupportCeiling)
      validSettlement ==
        ValidSettlement(wifeShareValid.out, husbandShareValid.out,
                        alimonyInBounds.out, childSupportReasonable.out)
      settlementNonNegative == GreaterEqThan(Bits, totalSettlement, 0)
  IN [alimonyPercentage |-> alimonyPercentage,
      alimonyBase |-> alimonyBase,
      alimonyReduction |-> alimonyReduction,
      alimonyAdjusted |-> alimonyAdjusted,
      wifeHasIncome |-> wifeHasIncome.out,
      meetsMinimum |-> meetsMinimum.out,
      monthlyAlimony |-> monthlyAlimony,
      totalChildSupport |-> totalChildSupport,
      wifeHasCustody |-> wifeHasCustody,
      wifeHasCustodyInverse |-> wifeHasCustodyInverse,
      childSupportFromHusband |-> childSupportFromHusband,
      childSupportFromWife |-> childSupportFromWife,
      monthlyChildSupport |-> monthlyChildSupport,
      totalAssets |-> totalAssets,
      wifeBonusPercentage |-> wifeBonusPercentage,
      wifeAssetShare |-> wifeAssetShare,
      husbandAssetShare |-> husbandAssetShare,
      mehrBalance |-> mehrBalance,
      lumpSumAlimony |-> lumpSumAlimony,
      totalSettlement |-> totalSettlement,
      wifeShareValid |-> wifeShareValid.out,
      husbandShareValid |-> husbandShareValid.out,
      alimonyCeiling |-> alimonyCeiling,
      alimonyInBounds |-> alimonyInBounds.out,
      childSupportCeiling |-> childSupportCeiling,
      childSupportReasonable |-> childSupportReasonable.out,
      isValid |-> validSettlement,
      \* signal output wifeShareAssets, husbandShareAssets: declared, and
      \* named in no assignment and no constraint
      wifeShareAssets |-> shareOutputs[1],
      husbandShareAssets |-> shareOutputs[2],
      \* the operand pairs in[0], in[1] handed to the 64-bit comparators
      comparands |->
        {<<in.wifeIncome, halfHusbandIncome>>,
         <<alimonyAdjusted, in.minimumMaintenance>>,
         <<in.mehrAmount, in.mehrPaid>>,
         <<wifeAssetShare, 0>>,
         <<husbandAssetShare, 0>>,
         <<monthlyAlimony, alimonyCeiling>>,
         <<monthlyChildSupport, childSupportCeiling>>,
         <<totalSettlement, 0>>},
      accepted |-> /\ wifeHasIncome.ok /\ meetsMinimum.ok /\ mehrNotPaid.ok
                   /\ wifeShareValid.ok /\ husbandShareValid.ok
                   /\ alimonyInBounds.ok /\ childSupportReasonable.ok
                   /\ settlementNonNegative.ok
                   /\ DivorceHardConstraints(settlementNonNegative.out)]

---------------------------------------------------------------------------
(* Payment Validation circuit (RaastPaymentValidation)                     *)

\* The field hash of the commitment: a sponge over the field with the
\* x^5 S-box (x^5 permutes the field: 5 does not divide P - 1).
RECURSIVE Poseidon(_)
Poseidon(xs) ==
  IF xs = <<>> THEN 0
  ELSE LET n == Len(xs)
           h == Poseidon(SubSeq(xs, 1, n - 1))
       IN Pow(Add(Add(h, xs[n]), n), 5)

\* Faulty variant: the daily total must stay strictly below the limit.
DailyCheckStrict(newDailyTotal, dailyLimit) ==
  LessThan(Bits, newDailyTotal, dailyLimit)

\* dailyCheck = LessEqThan(64) on newDailyTotal and dailyLimit
DailyCheck(newDailyTotal, dailyLimit) ==
  LessEqThan(Bits, newDailyTotal, dailyLimit)

\* Faulty variant: the zero check is left out of the product.
IsPositiveAlways(amount) == 1

\* isPositive <== 1 - isNonZero.out
IsPositive(amount) == Sub(1, IsZero(amount))

\* isNotSelfPayment <== 1 - isSelfPayment.out
IsNotSelfPayment(senderIBAN, recipientIBAN) ==
  Sub(1, IsEqual(senderIBAN, recipientIBAN))

\* isValid * (1 - commitmentNonZero) === 0
PaymentHardConstraints(isValid, commitmentNonZero) ==
  Mul(isValid, Sub(1, commitmentNonZero)) = 0

RaastPaymentValidation(in) ==
  LET minCheck == GreaterEqThan(Bits, in.amount, in.minAmount)
      maxCheck == LessEqThan(Bits, in.amount, in.maxAmount)
      rangeValid == Mul(minCheck.out, maxCheck.out)
      newDailyTotal == Add(in.dailyTotal, in.amount)
      dailyCheck == DailyCheck(newDailyTotal, in.dailyLimit)
      isPositive == IsPositive(in.amount)
      isNotSelfPayment == IsNotSelfPayment(in.senderIBAN, in.recipientIBAN)
      valid1 == Mul(rangeValid, isPositive)
      valid2 == Mul(valid1, dailyCheck.out)
      valid3 == Mul(valid2, isNotSelfPayment)
      compliance1 == Mul(rangeValid, dailyCheck.out)
      commitmentHash ==
        Poseidon(<<in.amount, in.senderIBAN, in.recipientIBAN,
                   in.dailyTotal, in.salt>>)
      commitmentNonZero == Sub(1, IsZero(commitmentHash))
  IN [rangeValid |-> rangeValid,
      newDailyTotal |-> newDailyTotal,
      dailyCheck |-> dailyCheck.out,
      isPositive |-> isPositive,
      isNotSelfPayment |-> isNotSelfPayment,
      isValid |-> valid3,
      complianceFlag |-> compliance1,
      commitmentHash |-> commitmentHash,
      accepted |-> /\ minCheck.ok /\ maxCheck.ok /\ dailyCheck.ok
                   /\ PaymentHardConstraints(valid3, commitmentNonZero)]

---------------------------------------------------------------------------
(* Batch Payment Validation circuit (RaastBatchValidation)                 *)

\* partialSums[0] <== amounts[0];
\* partialSums[i] <== partialSums[i-1] + amounts[i]
RECURSIVE PartialSums(_)
PartialSums(amounts) ==
  LET n == Len(amounts)
  IN IF n = 1 THEN <<amounts[1]>>
     ELSE LET prev == PartialSums(SubSeq(amounts, 1, n - 1))
          IN Append(prev, Add(prev[n - 1], amounts[n]))

\* Faulty variant: the product forgets the items before the current one.
LatestFlagOnly(previous, flag) == flag

\* validProducts[i] <== validProducts[i-1] * validFlags[i]
RunningProduct(previous, flag) == Mul(previous, flag)

\* validProducts[0] <== validFlags[0], then one RunningProduct per item
RECURSIVE ValidProducts(_)
ValidProducts(validFlags) ==
  LET n == Len(validFlags)
  IN IF n = 1 THEN <<validFlags[1]>>
     ELSE LET prev == ValidProducts(SubSeq(validFlags, 1, n - 1))
          IN Append(prev, RunningProduct(prev[n - 1], validFlags[n]))

RaastBatchValidation(in) ==
  LET numPayments == Len(in.amounts)
      partialSums == PartialSums(in.amounts)
      totalAmount == partialSums[numPayments]
      batchCheck == LessEqThan(Bits, totalAmount, in.batchLimit)
      validators ==
        [i \in 1 .. numPayments |->
           GreaterEqThan(Bits, in.amounts[i], in.perPaymentMin)]
      validFlags == [i \in 1 .. numPayments |-> validators[i].out]
      validProducts == ValidProducts(validFlags)
      allValid == validProducts[numPayments]
      isValidBatch == Mul(batchCheck.out, allValid)
      batchCommitment == Poseidon(Append(in.amounts, in.salt))
  IN [partialSums |-> partialSums,
      totalAmount |-> totalAmount,
      batchCheck |-> batchCheck.out,
      validFlags |-> validFlags,
      validProducts |-> validProducts,
      allValid |-> allValid,
      isValidBatch |-> isValidBatch,
      batchCommitment |-> batchCommitment,
      accepted |-> /\ batchCheck.ok
                   /\ \A i \in 1 .. numPayments : validators[i].ok]

---------------------------------------------------------------------------
(* Property Transfer (circuits/property_transfer)                          *)

maxHoldingPeriod == 15

seniorCitizenAge == 60

residentialStampDuty == 3

commercialStampDuty == 5

agriculturalStampDuty == 2

\* sdRate <-- (propertyType == 0) ? residential : (propertyType == 1) ?
\* commercial : agricultural   -- computed by the witness generator only
StampDutyRateHint(propertyType) ==
  IF propertyType = 0 THEN residentialStampDuty
  ELSE IF propertyType = 1 THEN commercialStampDuty
  ELSE agriculturalStampDuty

\* Faulty variant: the price-ratio check is left out of eligibility.
EligibleWithoutAml(validTransfer, amlCheckPassed) == validTransfer

\* isEligible <== validTransfer * amlCheckPassed
TransferEligible(validTransfer, amlCheckPassed) ==
  Mul(validTransfer, amlCheckPassed)

\* Faulty variant: the value passes through whatever the comparator says.
Uncapped(below, value, cap) == value

\* effectiveYears <== yearsCapped.out * ownershipYears
\*                      + (1 - yearsCapped.out) * maxHoldingPeriod
\* and the same selection for effectiveExemption with the cap 100
Capped(below, value, cap) ==
  Add(Mul(below, value), Mul(Sub(1, below), cap))

\* taxNonNegative.out === 1
PropertyHardConstraints(taxNonNegativeOut) == taxNonNegativeOut = 1

PropertyTransfer(in, sdRate) ==
  LET capitalGain == Sub(in.purchasePrice, in.originalPurchasePrice)
      gainValid ==
        GreaterEqThan(Bits, in.purchasePrice, in.originalPurchasePrice)
      yearsCapped == LessThan(Bits, in.ownershipYears, maxHoldingPeriod)
      effectiveYears ==
        Capped(yearsCapped.out, in.ownershipYears, maxHoldingPeriod)
      exemptionPercentage == Div(Mul(effectiveYears, 100), maxHoldingPeriod)
      isResidential == IsEqual(in.propertyType, 0)
      firstPropertyExemption ==
        Mul(Mul(in.isFirstProperty, isResidential), 50)
      isSenior == GreaterEqThan(Bits, in.buyerAge, seniorCitizenAge)
      seniorCitizenExemption == Mul(isSenior.out, 25)
      totalExemption ==
        Add(Add(exemptionPercentage, firstPropertyExemption),
            seniorCitizenExemption)
      exemptionCapped == LessThan(Bits, totalExemption, 100)
      effectiveExemption == Capped(exemptionCapped.out, totalExemption, 100)
      adjustedGain == Div(Mul(capitalGain, Sub(100, effectiveExemption)), 100)
      capitalGainsTax == Div(Mul(adjustedGain, 15), 100)
      stampDuty == Div(Mul(in.purchasePrice, sdRate), 100)
      totalTax == Add(capitalGainsTax, stampDuty)
      differentParties == Sub(1, IsEqual(in.buyerCNIC, in.sellerCNIC))
      pricePositive == GreaterThan(Bits, in.purchasePrice, 0)
      validTransfer ==
        Mul(Mul(gainValid.out, differentParties), pricePositive.out)
      suspiciouslyHigh ==
        LessThan(Bits, in.purchasePrice, Mul(in.originalPurchasePrice, 10))
      amlCheckPassed == suspiciouslyHigh.out
      isEligible == TransferEligible(validTransfer, amlCheckPassed)
      taxNonNegative == GreaterEqThan(Bits, totalTax, 0)
  IN [capitalGain |-> capitalGain,
      gainValid |-> gainValid.out,
      effectiveYears |-> effectiveYears,
      exemptionPercentage |-> exemptionPercentage,
      firstPropertyExemption |-> firstPropertyExemption,
      seniorCitizenExemption |-> seniorCitizenExemption,
      totalExemption |-> totalExemption,
      effectiveExemption |-> effectiveExemption,
      adjustedGain |-> adjustedGain,
      capitalGainsTax |-> capitalGainsTax,
      sdRate |-> sdRate,
      stampDuty |-> stampDuty,
      totalTax |-> totalTax,
      differentParties |-> differentParties,
      pricePositive |-> pricePositive.out,
      validTransfer |-> validTransfer,
      amlCheckPassed |-> amlCheckPassed,
      isEligible |-> isEligible,
      accepted |-> /\ gainValid.ok /\ yearsCapped.ok /\ isSenior.ok
                   /\ exemptionCapped.ok /\ pricePositive.ok
                   /\ suspiciouslyHigh.ok /\ taxNonNegative.ok
                   /\ PropertyHardConstraints(taxNonNegative.out)]

---------------------------------------------------------------------------
(* Raast payment library (Aftok.Currency.Raast.Payments, Haskell)          *)

\* Maybe
Nothing == [isJust |-> FALSE]

Just(x) == [isJust |-> TRUE, fromJust |-> x]

\* verifyRangeProof _proof _encAmount _lowerBound _upperBound = pure True
verifyRangeProof(proof, encAmount, lowerBound, upperBound) == TRUE

\* verifyComplianceProof _proof _payment = pure True
verifyComplianceProof(proof, payment) == TRUE

\* Faulty variant: a request without a proof is verified like any other.
verifyWithoutProof(payment) ==
  /\ verifyRangeProof(payment.zkProof, payment.encryptedAmount, 1, 100000000)
  /\ verifyComplianceProof(payment.zkProof, payment)

\* verifyPayment: False without a proof, else rangeValid && complianceValid
verifyPayment(payment) ==
  IF ~payment.zkProof.isJust THEN FALSE
  ELSE /\ verifyRangeProof(payment.zkProof, payment.encryptedAmount,
                           1, 100000000)
       /\ verifyComplianceProof(payment.zkProof, payment)

\* submitPayment: Left when verification fails, else Right of the request
\* with status RaastSubmitted and the transaction id "RAAST_" <> uuid.
submitPayment(payment, uuid) ==
  IF ~verifyPayment(payment)
    THEN [either |-> "Left", value |-> "Payment verification failed"]
    ELSE [either |-> "Right",
          value |-> [payment EXCEPT !.status = "RaastSubmitted",
                                    !.transactionId =
                                      Just(<<"RAAST_", uuid>>)]]

\* createPaymentRequest: the amount is encrypted and the range proof and
\* the compliance proof are generated and combined.
createPaymentRequest(requestId, senderIban, recipientIban, amount) ==
  [requestId |-> requestId,
   senderIBAN |-> senderIban,
   recipientIBAN |-> recipientIban,
   encryptedAmount |-> <<"ct", amount>>,
   zkProof |-> Just(<<"ZKPROOF_RANGE", amount, "ZKPROOF_COMPLIANCE",
                      senderIban, recipientIban>>),
   zkVerified |-> FALSE,
   status |-> "RaastPending",
   transactionId |-> Nothing]

\* createEncryptedPaymentRequest: no proof is attached.
createEncryptedPaymentRequest(requestId, senderIban, recipientIban, encAmount) ==
  [requestId |-> requestId,
   senderIBAN |-> senderIban,
   recipientIBAN |-> recipientIban,
   encryptedAmount |-> encAmount,
   zkProof |-> Nothing,
   zkVerified |-> FALSE,
   status |-> "RaastPending",
   transactionId |-> Nothing]

\* updatePaymentStatus request newStatus
updatePaymentStatus(payment, newStatus) == [payment EXCEPT !.status = newStatus]

\* data RaastPaymentStatus
RaastPaymentStatus ==
  {"RaastPending", "RaastVerified", "RaastSubmitted", "RaastCompleted",
   "RaastFailed", "RaastExpired"}

---------------------------------------------------------------------------
(* Zcash service, document store and document viewer (TypeScript)          *)
(*                                                                         *)
(* An async function runs without interruption up to an await; what        *)
(* follows the await runs in a later turn of the event loop, and the       *)
(* turns of other calls and handlers come in between.  Money of the        *)
(* wallet is counted in tenths of a ZEC.                                   *)

\* createMockWallet: balance: 10.5
mockBalance == 105

\* DocumentViewer: useState(0.1), the fee of a submission
paymentAmount == 1

\* DocumentViewer: useState('ztestsapling1qqq...')
lawFirmAddress == "ztestsapling1q"

\* DocumentStatus
DocumentStatus ==
  {"DRAFT", "PROOF_GENERATING", "PROOF_GENERATED", "PAYMENT_PENDING",
   "SUBMITTED", "VERIFIED", "REJECTED"}

\* The callers of zcashService.sendPayment: the document viewer's submit
\* handler and the revenue distribution of the Aftok service.
Callers == {"viewer", "distribution"}

\* A caller with no call of sendPayment under way.
NoCall == [pc |-> "none", amount |-> 0, value |-> ""]

\* sendPayment up to its await: throws without a wallet and on a balance
\* below the amount, else waits for the timer of the mock transaction.
sendPaymentChecks(wallet, amount) ==
  IF ~wallet.isJust
    THEN [pc |-> "threw", amount |-> amount, value |-> "Wallet not initialized"]
  ELSE IF wallet.fromJust.balance < amount
    THEN [pc |-> "threw", amount |-> amount, value |-> "Insufficient balance"]
  ELSE [pc |-> "timer", amount |-> amount, value |-> ""]

\* sendPayment after its await, the wallet: this.wallet.balance -=
\* request.amount, on the wallet the service holds by then.
walletAfterTimer(wallet, amount) ==
  IF wallet.isJust
    THEN Just([wallet.fromJust EXCEPT !.balance = @ - amount])
    ELSE wallet

\* sendPayment after its await, the call: returns the mock transaction id;
\* without a wallet the debit is a property access on null, a TypeError
\* that the catch block rethrows.
callAfterTimer(wallet, amount, mockTxId) ==
  IF wallet.isJust
    THEN [pc |-> "returned", amount |-> amount, value |-> mockTxId]
    ELSE [pc |-> "threw", amount |-> amount, value |-> "TypeError"]

\* DocumentCreator: the document handed to addDocument.
NewDocument ==
  [status |-> "PROOF_GENERATED", lawFirmAddress |-> Nothing,
   paymentTxId |-> Nothing]

\* updateDocument: { ...doc, ...updates } on the document with that id
updateDocument(docs, id, updates) ==
  [d \in DOMAIN docs |->
     IF d = id /\ docs[d].isJust
       THEN Just([f \in DOMAIN docs[d].fromJust |->
                    IF f \in DOMAIN updates THEN updates[f]
                    ELSE docs[d].fromJust[f]])
       ELSE docs[d]]

\* Faulty variant: the document is updated whatever the payment did.
documentsAfterAnyPayment(docs, id, call) ==
  updateDocument(docs, id, [status |-> "SUBMITTED",
                            lawFirmAddress |-> Just(lawFirmAddress),
                            paymentTxId |-> Just(call.value)])

\* handleSubmitDocument after its await: updateDocument with the returned
\* transaction id in the try block, nothing but a log in the catch block.
documentsAfterPayment(docs, id, call) ==
  IF call.pc = "returned"
    THEN updateDocument(docs, id, [status |-> "SUBMITTED",
                                   lawFirmAddress |-> Just(lawFirmAddress),
                                   paymentTxId |-> Just(call.value)])
    ELSE docs

---------------------------------------------------------------------------
(* Encryption service (FHEService, TypeScript)                             *)
(*                                                                         *)
(* A key pair is named by the number of the generateKey call that made     *)
(* it.  RSA-OAEP: what a public key encrypted, only the private key of     *)
(* the same pair decrypts; with another key decrypt rejects.               *)

Digits == <<"0", "1", "2", "3", "4", "5", "6", "7", "8", "9">>

RECURSIVE toDigits(_)
toDigits(n) ==
  IF n < 10 THEN <<Digits[n + 1]>>
  ELSE Append(toDigits(n \div 10), Digits[(n % 10) + 1])

\* value.toString()
toString(value) ==
  IF value < 0 THEN <<"-">> \o toDigits(0 - value) ELSE toDigits(value)

RECURSIVE fromDigits(_)
fromDigits(str) ==
  IF str = <<>> THEN 0
  ELSE 10 * fromDigits(SubSeq(str, 1, Len(str) - 1))
       + (CHOOSE d \in 0 .. 9 : Digits[d + 1] = str[Len(str)])

\* BigInt(valueStr)
BigInt(valueStr) ==
  IF Head(valueStr) = "-" THEN 0 - fromDigits(Tail(valueStr))
  ELSE fromDigits(valueStr)

\* crypto.subtle.encrypt with the public key of a pair
encrypt(publicKey, data) == [key |-> publicKey, data |-> data]

\* crypto.subtle.decrypt with the private key of a pair: the data, or
\* nothing when decrypt rejects.
decrypt(privateKey, ciphertext) ==
  IF ciphertext.key = privateKey THEN Just(ciphertext.data) ELSE Nothing

\* decryptValue: throws (Nothing) when the service is not initialized or
\* decrypt rejects, else the decrypted string as a bigint.
decryptValue(service, encrypted) ==
  IF ~service.initialized \/ ~service.keys.isJust THEN Nothing
  ELSE IF decrypt(service.keys.fromJust, encrypted.ciphertext).isJust
    THEN Just(BigInt(decrypt(service.keys.fromJust,
                             encrypted.ciphertext).fromJust))
  ELSE Nothing

\* The callers of the encryption service (encryptObject runs encryptValue
\* on the elements of an array at once, with Promise.all).
FheCallers == {"a", "b"}

\* A caller with no call under way.
NoFheCall ==
  [op |-> "none", pc |-> "none", value |-> 0, key |-> 0, result |-> Nothing]

---------------------------------------------------------------------------
(* Inputs of the model                                                     *)

\* The numbers encrypted.
FheValues == {0, 42, -3}

\* The ids the mock transaction draws (64 random hexadecimal digits in the
\* source).
TxIds == {"0xa", "0xb"}

\* Amounts of the revenue distribution's payments, in tenths of a ZEC: the
\* submission fee, more than half the mock balance, the whole mock balance.
PaymentAmounts == {paymentAmount, 60, mockBalance}

DocumentIds == {"doc1", "doc2"}

\* Values around every bracket ceiling, ten times the top ceiling, two
\* amounts wider than a comparator, and the income (1,500,000 PKR) and
\* deductions (200,000 PKR) of the documented scenario.
TaxAmounts ==
  {0, 1, 20, 150000000 \div Scale, 20000000 \div Scale, bracket1Limit - 1, bracket1Limit, bracket1Limit + 1,
   bracket1Limit + 20, bracket2Limit - 1, bracket2Limit, bracket2Limit + 1,
   bracket3Limit - 1, bracket3Limit, bracket3Limit + 1, bracket4Limit - 1,
   bracket4Limit, bracket4Limit + 1, 10 * bracket4Limit,
   2^Bits + 5, 2^(Bits + 1) + 3}

MaxDependents == 3

TaxDependents == 0 .. MaxDependents

FilingStatuses == {0, 1, 2}

\* Values a prover may put in the hint taxRate.
TaxRateForgeries == {0, 5, 15, 20, 35, 7}

\* The inputs of Means Test requests; assets of 7 make the division of
\* the net worth by 10 inexact.
MeansInputs ==
  [monthlyIncome : {0, 1, 2, 10},
   monthlyExpenses : {0, 1, 2},
   totalAssets : {0, 7, 10, 20},
   totalLiabilities : {0, 10, 20, 30},
   dependents : {0, 1, 2},
   eligibilityThreshold : {0, 7, 10, 11, 12, 20, 100}]

\* The inputs of Divorce Settlement requests: incomes and assets are
\* multiples of 100 so that the percentages of the generator's own hints
\* divide exactly; custodyToWife also takes a value that is no boolean.
DivorceInputs ==
  [husbandIncome : {100, 200},
   wifeIncome : {0, 100, 300},
   husbandAssets : {0, 100},
   wifeAssets : {100},
   marriageDuration : {5, 11, 16},
   numberOfChildren : {0, 2},
   childrenAges : {0},
   mehrAmount : {50},
   mehrPaid : {0, 50},
   custodyToWife : {0, 1, 2},
   wifeContributed : {0, 1},
   faultDivorce : {0, 1},
   faultParty : {0, 1},
   minimumMaintenance : {0, 40},
   childSupportRate : {10}]

\* What the witness generator leaves in wifeShareAssets and
\* husbandShareAssets: no statement assigns them, and the witness keeps the
\* zero it was initialised with.
UnassignedShareOutputs == <<0, 0>>

\* What a prover may put in wifeShareAssets and husbandShareAssets.
ShareOutputForgeries == {<<50, 50>>, <<1000, 0>>, <<0, 1000>>}

\* The UUIDs drawn for request ids and transaction ids.
Uuids == {"u1", "u2"}

\* The IBANs and amounts of payment requests.
Ibans == {"PK01", "PK02"}

RaastAmounts == {1, 2}

\* Values a prover may put in the hint alimonyPercentage.
AlimonyForgeries == {25, 33, 50}

\* Values a prover may put in the hint wifeBonusPercentage.
WifeBonusForgeries == {50, 100, 200}

\* The inputs of payment requests: amounts and limits at, just below and
\* just above each other, and the largest value a comparator width holds.
PaymentInputs ==
  [amount : {0, 1, 2, 5, 2^Bits - 1},
   senderIBAN : {1, 2},
   recipientIBAN : {1, 2},
   dailyTotal : {0, 3, 2^Bits - 1},
   salt : {1, 2},
   minAmount : {0, 1, 2},
   maxAmount : {1, 5, 2^Bits - 1},
   dailyLimit : {0, 5, 8, 2^Bits - 1}]

\* The largest batch (numPayments) of the model.
MaxPayments == 3

\* The amounts of batch items: below, at and above the per-payment
\* minimum, the largest value of a comparator width, and one below zero.
BatchAmounts == {0, 1, 2, 5, 2^Bits - 1, Fe(-1)}

\* The inputs of a batch of numPayments items; the IBAN arrays are declared
\* inputs that no constraint reads.
BatchInputsOf(numPayments) ==
  [amounts : [1 .. numPayments -> BatchAmounts],
   senderIBANs : {[i \in 1 .. numPayments |-> 1]},
   recipientIBANs : {[i \in 1 .. numPayments |-> 2]},
   salt : {1},
   batchLimit : {0, 5, 8, 2^Bits - 1},
   perPaymentMin : {0, 1, 2},
   perPaymentMax : {1, 5}]

\* The circuit instantiated at every size from 1 to MaxPayments.
BatchInputs == UNION {BatchInputsOf(n) : n \in 1 .. MaxPayments}

\* The inputs of property transfers: prices at 0, equal, doubled and at ten
\* times the original, one price below zero in the signed reading; holding
\* periods below, at and above the cap, and one below zero; flags inside
\* and outside {0, 1}.
PropertyInputs ==
  [purchasePrice : {0, 2000, 4000, 20000, Fe(-2000)},
   originalPurchasePrice : {0, 2000, 4000},
   ownershipYears : {0, 1, 3, 15, 30, Fe(-3)},
   propertyType : {0, 1, 2},
   isFirstProperty : {0, 1, Fe(-1)},
   buyerAge : {30, 59, 60},
   sellerCNIC : {1},
   buyerCNIC : {1, 2}]

\* What a prover may put in sdRate instead of the computed rate.
StampDutyForgeries == {0, 2, 3, 5, 100}

---------------------------------------------------------------------------
(* Witness generation and proving, one request at a time                   *)

NoRecord == [accepted |-> FALSE]

Init ==
  /\ circuit = "idle"
  /\ by = "none"
  /\ inp = NoRecord
  /\ sig = NoRecord
  /\ raast = [request |-> Nothing, outcome |-> Nothing]
  /\ zcash = [wallet |-> Nothing, call |-> [c \in Callers |-> NoCall]]
  /\ viewer = [isSubmitting |-> FALSE, id |-> Nothing]
  /\ documents = [id \in DocumentIds |-> Nothing]
  /\ fhe = [initialized |-> FALSE, keys |-> Nothing, generated |-> 0,
            call |-> [c \in FheCallers |-> NoFheCall],
            decrypted |-> Nothing]

\* The witness generator evaluates the Tax circuit on a request's inputs.
EvaluateTax ==
  /\ circuit = "idle"
  /\ \E income \in TaxAmounts, totalDeductions \in TaxAmounts,
        dependents \in TaxDependents, filingStatus \in FilingStatuses :
       /\ inp' = [income |-> income, totalDeductions |-> totalDeductions,
                  dependents |-> dependents, filingStatus |-> filingStatus]
       /\ sig' = TaxCalculation(income, totalDeductions, dependents,
                                filingStatus,
                                TaxRateHint(Sub(income, totalDeductions)))
  /\ circuit' = "tax"
  /\ by' = "generator"
  /\ UNCHANGED services

\* A prover builds a Tax witness with a hint of its own choice.
ProveTax ==
  /\ circuit = "idle"
  /\ \E income \in TaxAmounts, totalDeductions \in TaxAmounts,
        dependents \in TaxDependents, filingStatus \in FilingStatuses,
        taxRate \in TaxRateForgeries :
       /\ inp' = [income |-> income, totalDeductions |-> totalDeductions,
                  dependents |-> dependents, filingStatus |-> filingStatus]
       /\ sig' = TaxCalculation(income, totalDeductions, dependents,
                                filingStatus, taxRate)
  /\ circuit' = "tax"
  /\ by' = "prover"
  /\ UNCHANGED services

\* The witness generator evaluates the Means Test circuit (it has no
\* hinted signal: the inputs fix every signal).
EvaluateMeans ==
  /\ circuit = "idle"
  /\ \E in \in MeansInputs :
       /\ inp' = in
       /\ sig' = MeansTest(in)
  /\ circuit' = "means"
  /\ by' = "generator"
  /\ UNCHANGED services

\* The witness generator evaluates the Divorce Settlement circuit: the
\* hints take the values of their  <--  expressions.
EvaluateDivorce ==
  /\ circuit = "idle"
  /\ \E in \in DivorceInputs :
       /\ inp' = in
       /\ sig' = DivorceSettlement(in, AlimonyPercentageHint(in),
                                    WifeBonusPercentageHint(in),
                                    UnassignedShareOutputs)
  /\ circuit' = "divorce"
  /\ by' = "generator"
  /\ UNCHANGED services

\* A prover builds a Divorce Settlement witness with hints of its choice.
ProveDivorce ==
  /\ circuit = "idle"
  /\ \E in \in DivorceInputs, alimonyPercentage \in AlimonyForgeries,
        wifeBonusPercentage \in WifeBonusForgeries :
       /\ inp' = in
       /\ sig' = DivorceSettlement(in, alimonyPercentage, wifeBonusPercentage,
                                    UnassignedShareOutputs)
  /\ circuit' = "divorce"
  /\ by' = "prover"
  /\ UNCHANGED services

\* A prover builds a Divorce Settlement witness with the generator's hints
\* and values of its choice in the two outputs no constraint mentions.
ProveDivorceOutputs ==
  /\ circuit = "idle"
  /\ \E in \in DivorceInputs, shareOutputs \in ShareOutputForgeries :
       /\ inp' = in
       /\ sig' = DivorceSettlement(in, AlimonyPercentageHint(in),
                                    WifeBonusPercentageHint(in), shareOutputs)
  /\ circuit' = "divorce"
  /\ by' = "prover"
  /\ UNCHANGED services

\* The witness generator evaluates the Payment Validation circuit (it
\* has no hinted signal of its own: the inputs fix every signal).
EvaluatePayment ==
  /\ circuit = "idle"
  /\ \E in \in PaymentInputs :
       /\ inp' = in
       /\ sig' = RaastPaymentValidation(in)
  /\ circuit' = "payment"
  /\ by' = "generator"
  /\ UNCHANGED services

EvaluateProperty ==
  /\ circuit = "idle"
  /\ \E in \in PropertyInputs :
       /\ inp' = in
       /\ sig' = PropertyTransfer(in, StampDutyRateHint(in.propertyType))
  /\ circuit' = "property"
  /\ by' = "generator"
  /\ UNCHANGED services

ProveProperty ==
  /\ circuit = "idle"
  /\ \E in \in PropertyInputs, sdRate \in StampDutyForgeries :
       /\ inp' = in
       /\ sig' = PropertyTransfer(in, sdRate)
  /\ circuit' = "property"
  /\ by' = "prover"
  /\ UNCHANGED services

EvaluateBatch ==
  /\ circuit = "idle"
  /\ \E in \in BatchInputs :
       /\ inp' = in
       /\ sig' = RaastBatchValidation(in)
  /\ circuit' = "batch"
  /\ by' = "generator"
  /\ UNCHANGED services

\* The request is over; nothing of it is kept.
Reset ==
  /\ circuit # "idle"
  /\ circuit' = "idle"
  /\ by' = "none"
  /\ UNCHANGED services
  /\ inp' = NoRecord
  /\ sig' = NoRecord

NextTax == EvaluateTax \/ ProveTax \/ Reset

SpecTax == Init /\ [][NextTax]_vars

NextMeans == EvaluateMeans \/ Reset

SpecMeans == Init /\ [][NextMeans]_vars

NextDivorce ==
  EvaluateDivorce \/ ProveDivorce \/ ProveDivorceOutputs \/ Reset

SpecDivorce == Init /\ [][NextDivorce]_vars

NextPayment == EvaluatePayment \/ Reset

SpecPayment == Init /\ [][NextPayment]_vars

NextProperty == EvaluateProperty \/ ProveProperty \/ Reset

SpecProperty == Init /\ [][NextProperty]_vars

NextBatch == EvaluateBatch \/ Reset

SpecBatch == Init /\ [][NextBatch]_vars

---------------------------------------------------------------------------
(* Raast payment library: a caller holding one request                     *)

CallCreatePaymentRequest ==
  /\ ~raast.request.isJust
  /\ \E id \in Uuids, sender \in Ibans, recipient \in Ibans,
        amount \in RaastAmounts :
       raast' = [request |->
                   Just(createPaymentRequest(id, sender, recipient, amount)),
                 outcome |-> Nothing]
  /\ UNCHANGED <<request, ui, fhe>>

CallCreateEncryptedPaymentRequest ==
  /\ ~raast.request.isJust
  /\ \E id \in Uuids, sender \in Ibans, recipient \in Ibans,
        amount \in RaastAmounts :
       raast' = [request |->
                   Just(createEncryptedPaymentRequest(id, sender, recipient,
                                                      <<"ct", amount>>)),
                 outcome |-> Nothing]
  /\ UNCHANGED <<request, ui, fhe>>

CallUpdatePaymentStatus ==
  /\ raast.request.isJust
  /\ ~raast.outcome.isJust
  /\ \E newStatus \in RaastPaymentStatus :
       raast' = [raast EXCEPT !.request =
                  Just(updatePaymentStatus(@.fromJust, newStatus))]
  /\ UNCHANGED <<request, ui, fhe>>

CallSubmitPayment ==
  /\ raast.request.isJust
  /\ ~raast.outcome.isJust
  /\ \E uuid \in Uuids :
       raast' = [raast EXCEPT !.outcome =
                  Just(submitPayment(raast.request.fromJust, uuid))]
  /\ UNCHANGED <<request, ui, fhe>>

\* The caller goes on with the request submitPayment returned (Right), or
\* drops the request (Left).
TakeOutcome ==
  /\ raast.outcome.isJust
  /\ raast' = [request |-> IF raast.outcome.fromJust.either = "Right"
                             THEN Just(raast.outcome.fromJust.value)
                             ELSE Nothing,
               outcome |-> Nothing]
  /\ UNCHANGED <<request, ui, fhe>>

NextRaast ==
  \/ CallCreatePaymentRequest
  \/ CallCreateEncryptedPaymentRequest
  \/ CallUpdatePaymentStatus
  \/ CallSubmitPayment
  \/ TakeOutcome

SpecRaast == Init /\ [][NextRaast]_vars

---------------------------------------------------------------------------
(* Zcash service, document store and document viewer: one turn of the      *)
(* event loop per action                                                   *)

\* LoginPage: zcashService.initializeWallet(), the mock wallet.
InitializeWallet ==
  /\ zcash' = [zcash EXCEPT !.wallet = Just([balance |-> mockBalance])]
  /\ UNCHANGED <<request, raast, fhe, viewer, documents>>

\* Header: zcashService.disconnect()
Disconnect ==
  /\ zcash.wallet.isJust
  /\ zcash' = [zcash EXCEPT !.wallet = Nothing]
  /\ UNCHANGED <<request, raast, fhe, viewer, documents>>

\* distributePayment calls sendPayment for a contributor's amount.
DistributePayment ==
  /\ zcash.call["distribution"].pc = "none"
  /\ \E amount \in PaymentAmounts :
       zcash' = [zcash EXCEPT !.call["distribution"] =
                   sendPaymentChecks(zcash.wallet, amount)]
  /\ UNCHANGED <<request, raast, fhe, viewer, documents>>

\* The timer of a call's mock transaction fires: the call draws its
\* transaction id, debits the wallet and returns.
TimerFires(c) ==
  /\ zcash.call[c].pc = "timer"
  /\ \E mockTxId \in TxIds :
       zcash' = [wallet |-> walletAfterTimer(zcash.wallet,
                                             zcash.call[c].amount),
                 call |-> [zcash.call EXCEPT ![c] =
                             callAfterTimer(zcash.wallet, @.amount,
                                            mockTxId)]]
  /\ UNCHANGED <<request, raast, fhe, viewer, documents>>

\* distributePayment goes on after its await (the next contributor, or its
\* catch block).
DistributionResumes ==
  /\ zcash.call["distribution"].pc \in {"returned", "threw"}
  /\ zcash' = [zcash EXCEPT !.call["distribution"] = NoCall]
  /\ UNCHANGED <<request, raast, fhe, viewer, documents>>

\* DocumentCreator: addDocument(document)
AddDocument ==
  /\ \E id \in DocumentIds :
       /\ ~documents[id].isJust
       /\ documents' = [documents EXCEPT ![id] = Just(NewDocument)]
  /\ UNCHANGED <<request, raast, fhe, zcash, viewer>>

\* The submit button of the viewer, shown for a document with status
\* PROOF_GENERATED and disabled while isSubmitting: handleSubmitDocument
\* up to its await.  (The button is also disabled by the wallet of the
\* store as it was at the last render, which is neither the wallet of the
\* service nor its balance by the time of the click.)
HandleSubmitDocument ==
  /\ ~viewer.isSubmitting
  /\ \E id \in DocumentIds :
       /\ documents[id].isJust
       /\ documents[id].fromJust.status = "PROOF_GENERATED"
       /\ viewer' = [isSubmitting |-> TRUE, id |-> Just(id)]
  /\ zcash' = [zcash EXCEPT !.call["viewer"] =
                 sendPaymentChecks(zcash.wallet, paymentAmount)]
  /\ UNCHANGED <<request, raast, fhe, documents>>

\* handleSubmitDocument after its await: the try block's updateDocument
\* or the catch block, then the finally block's setIsSubmitting(false).
ResumeSubmitDocument ==
  /\ viewer.isSubmitting
  /\ zcash.call["viewer"].pc \in {"returned", "threw"}
  /\ documents' = documentsAfterPayment(documents, viewer.id.fromJust,
                                        zcash.call["viewer"])
  /\ viewer' = [isSubmitting |-> FALSE, id |-> Nothing]
  /\ zcash' = [zcash EXCEPT !.call["viewer"] = NoCall]
  /\ UNCHANGED <<request, raast, fhe>>

NextWallet ==
  \/ InitializeWallet
  \/ Disconnect
  \/ DistributePayment
  \/ \E c \in Callers : TimerFires(c)
  \/ DistributionResumes
  \/ AddDocument
  \/ HandleSubmitDocument
  \/ ResumeSubmitDocument

SpecWallet == Init /\ [][NextWallet]_vars

\* The event loop runs every timer that is due and every continuation
\* that is ready.
SpecSubmit ==
  /\ Init
  /\ [][NextWallet]_vars
  /\ WF_vars(TimerFires("viewer"))
  /\ WF_vars(ResumeSubmitDocument)

---------------------------------------------------------------------------
(* Encryption service: one turn of the event loop per action               *)

\* initialize() up to its first await: returns at once when initialized,
\* else calls generateKey.
initializeBegins(service, c, op, value) ==
  IF service.initialized
    THEN [service EXCEPT !.call[c] =
            [op |-> op,
             pc |-> IF op = "initialize" THEN "returned" ELSE "initialized",
             value |-> value, key |-> 0, result |-> Nothing]]
    ELSE [service EXCEPT !.generated = @ + 1,
                         !.call[c] =
            [op |-> op, pc |-> "generating", value |-> value,
             key |-> service.generated + 1, result |-> Nothing]]

\* A caller calls initialize().
CallInitialize(c) ==
  /\ fhe.call[c].pc = "none"
  /\ fhe' = initializeBegins(fhe, c, "initialize", 0)
  /\ UNCHANGED <<request, raast, ui>>

\* A caller calls encryptValue(value): awaits initialize() when the
\* service is not initialized or has no keys, else goes on to importKey
\* with the public key the service holds.
CallEncryptValue(c) ==
  /\ fhe.call[c].pc = "none"
  /\ \E value \in FheValues :
       fhe' = IF ~fhe.initialized \/ ~fhe.keys.isJust
                THEN initializeBegins(fhe, c, "encryptValue", value)
                ELSE [fhe EXCEPT !.call[c] =
                        [op |-> "encryptValue", pc |-> "encrypting",
                         value |-> value, key |-> fhe.keys.fromJust,
                         result |-> Nothing]]
  /\ UNCHANGED <<request, raast, ui>>

\* initialize() after its awaits (generateKey, exportKey): this.keys is the
\* pair this call generated, this.initialized = true.
KeysGenerated(c) ==
  /\ fhe.call[c].pc = "generating"
  /\ fhe' = [fhe EXCEPT !.keys = Just(fhe.call[c].key),
                        !.initialized = TRUE,
                        !.call[c].pc = IF fhe.call[c].op = "initialize"
                                         THEN "returned" ELSE "initialized"]
  /\ UNCHANGED <<request, raast, ui>>

\* encryptValue after  await this.initialize() : importKey with the public
\* key the service holds by then.
ImportKey(c) ==
  /\ fhe.call[c].pc = "initialized"
  /\ fhe' = [fhe EXCEPT !.call[c].pc = "encrypting",
                        !.call[c].key = fhe.keys.fromJust]
  /\ UNCHANGED <<request, raast, ui>>

\* encryptValue after its awaits (importKey, encrypt): returns the
\* ciphertext made with the imported key, and the public key the service
\* holds by then.
EncryptValueReturns(c) ==
  /\ fhe.call[c].pc = "encrypting"
  /\ fhe' = [fhe EXCEPT !.call[c].pc = "returned",
                        !.call[c].result =
                          Just([ciphertext |->
                                  encrypt(fhe.call[c].key,
                                          toString(fhe.call[c].value)),
                                publicKey |-> fhe.keys.fromJust])]
  /\ UNCHANGED <<request, raast, ui>>

\* A caller hands the EncryptedValue it got to decryptValue.
CallDecryptValue(c) ==
  /\ fhe.call[c].pc = "returned"
  /\ fhe.call[c].result.isJust
  /\ fhe' = [fhe EXCEPT !.decrypted =
                Just([value |-> fhe.call[c].value,
                      outcome |-> decryptValue(fhe,
                                               fhe.call[c].result.fromJust)])]
  /\ UNCHANGED <<request, raast, ui>>

\* A caller is done with what its call returned.
FheCallEnds(c) ==
  /\ fhe.call[c].pc = "returned"
  /\ fhe' = [fhe EXCEPT !.call[c] = NoFheCall]
  /\ UNCHANGED <<request, raast, ui>>

NextFhe ==
  \/ \E c \in FheCallers : CallInitialize(c)
  \/ \E c \in FheCallers : CallEncryptValue(c)
  \/ \E c \in FheCallers : KeysGenerated(c)
  \/ \E c \in FheCallers : ImportKey(c)
  \/ \E c \in FheCallers : EncryptValueReturns(c)
  \/ \E c \in FheCallers : CallDecryptValue(c)
  \/ \E c \in FheCallers : FheCallEnds(c)

SpecFhe == Init /\ [][NextFhe]_vars

---------------------------------------------------------------------------
(* Progressive Tax: properties                                             *)

Max(a, b) == IF a >= b THEN a ELSE b

Min(a, b) == IF a <= b THEN a ELSE b

\* The part of t lying between the ceilings lo and hi.
TierPart(t, lo, hi) == Max(0, Min(t, hi) - lo)

\* The progressive sum over the table, integer multiply-then-divide per
\* tier, less the credit per dependent, clamped at 0.
ClosedFormTax(t, dependents) ==
  Max(0, (TierPart(t, 0, bracket1Limit) * 0) \div 100
         + (TierPart(t, bracket1Limit, bracket2Limit) * 5) \div 100
         + (TierPart(t, bracket2Limit, bracket3Limit) * 15) \div 100
         + (TierPart(t, bracket3Limit, bracket4Limit) * 20) \div 100
         + (Max(0, t - bracket4Limit) * 35) \div 100
         - dependentCreditUnit * dependents)

\* C1: for every income >= totalDeductions (amounts up to ten times the
\* top ceiling) the witness generator produces an accepted witness whose
\* taxOwed is the closed-form progressive tax of income - totalDeductions.
C1_TaxEqualsClosedForm ==
  (circuit = "tax" /\ by = "generator" /\ inp.income >= inp.totalDeductions
     /\ inp.income <= 10 * bracket4Limit)
    => /\ sig.accepted
       /\ sig.taxOwed = ClosedFormTax(inp.income - inp.totalDeductions,
                                      inp.dependents)

\* C7: with totalDeductions > income no witness of the Tax circuit is
\* accepted, whoever builds it and whatever the hint.
C7_NegativeTaxableRejected ==
  (circuit = "tax" /\ inp.totalDeductions > inp.income) => ~sig.accepted

\* C7 witness: a request with totalDeductions > income whose comparator
\* gtZero decomposed and output 0, and which was rejected for it.
C7_Witness ==
  /\ circuit = "tax"
  /\ inp.totalDeductions > inp.income
  /\ sig.gtZero = 0
  /\ sig.isValid = 1
  /\ ~sig.accepted

\* The rate of the bracket that holds t, each bracket ending at its
\* ceiling inclusive: 0 up to bracket1Limit, 5 from bracket1Limit + 1, ...
BracketRate(t) ==
  IF t <= bracket1Limit THEN 0
  ELSE IF t <= bracket2Limit THEN 5
  ELSE IF t <= bracket3Limit THEN 15
  ELSE IF t <= bracket4Limit THEN 20
  ELSE 35

\* C9: in every accepted Tax witness taxBracket is the rate of the
\* bracket that holds taxableIncome, so it is fixed by the inputs.
C9_TaxBracketFixedByInputs ==
  (circuit = "tax" /\ sig.accepted)
    => sig.taxBracket = BracketRate(Val(sig.taxableIncome))

\* The bracket ceilings, with 0 below the first.
Ceiling(k) ==
  IF k = 0 THEN 0
  ELSE IF k = 1 THEN bracket1Limit
  ELSE IF k = 2 THEN bracket2Limit
  ELSE IF k = 3 THEN bracket3Limit
  ELSE bracket4Limit

\* C18: with taxableIncome exactly at a ceiling L_k the witness is accepted,
\* tier k holds its full width and tier k+1 holds 0, so the tax is that of
\* the lower rates only; one unit above, tier k+1 holds exactly 1, and in
\* every accepted witness above L_k tier k+1 holds what lies above L_k.
C18_CeilingTaxedAtLowerRate ==
  (circuit = "tax" /\ inp.income >= inp.totalDeductions
     /\ inp.income <= 10 * bracket4Limit)
    => LET t == inp.income - inp.totalDeductions
       IN \A k \in 1 .. 4 :
            /\ t = Ceiling(k) =>
                 /\ sig.accepted
                 /\ sig.bracketAmount[k] = Ceiling(k) - Ceiling(k - 1)
                 /\ sig.bracketAmount[k + 1] = 0
                 /\ sig.tierTax[k + 1] = 0
                 /\ sig.baseTax = ClosedFormTax(t, 0)
            /\ t = Ceiling(k) + 1 =>
                 /\ sig.bracketAmount[k] = Ceiling(k) - Ceiling(k - 1)
                 /\ sig.bracketAmount[k + 1] = 1
            /\ (sig.accepted /\ t > Ceiling(k)) =>
                 sig.bracketAmount[k + 1] =
                   IF k = 4 THEN t - Ceiling(k)
                   ELSE Min(t, Ceiling(k + 1)) - Ceiling(k)

\* C18 witness: taxableIncome at the second ceiling, accepted: tier 2 is
\* full, tier 3 is empty, and the tax is 5 percent of tier 2.
C18_Witness ==
  /\ circuit = "tax"
  /\ sig.accepted
  /\ sig.taxableIncome = bracket2Limit
  /\ sig.bracketAmount[2] = bracket2Limit - bracket1Limit
  /\ sig.bracketAmount[3] = 0
  /\ sig.baseTax = ((bracket2Limit - bracket1Limit) * 5) \div 100

\* C18 witness above a ceiling: an accepted witness whose second tier holds
\* the 20 units above the first ceiling and carries their tax.
C18_WitnessAbove ==
  /\ circuit = "tax"
  /\ sig.accepted
  /\ sig.taxableIncome = bracket1Limit + 20
  /\ sig.bracketAmount[2] = 20
  /\ sig.tierTax[2] = 1

\* C19: income 1,500,000 PKR, deductions 200,000 PKR, 2 dependents: the
\* witness is accepted with taxableIncome 1,300,000 PKR, tax in tiers 2 and
\* 3 only (30,000 + 15,000 = 45,000 PKR), a credit of 20,000 PKR, taxOwed
\* 25,000 PKR (2,500,000 circuit units) and isValid = 1.
C19_DocumentedScenario ==
  (circuit = "tax" /\ inp.income = 150000000 \div Scale
     /\ inp.totalDeductions = 20000000 \div Scale /\ inp.dependents = 2)
    => /\ sig.accepted
       /\ sig.taxableIncome = 130000000 \div Scale
       /\ sig.bracketAmount =
            <<60000000 \div Scale, 60000000 \div Scale,
              10000000 \div Scale, 0, 0>>
       /\ sig.tierTax =
            <<0, 3000000 \div Scale, 1500000 \div Scale, 0, 0>>
       /\ sig.baseTax = 4500000 \div Scale
       /\ sig.dependentCredit = 2000000 \div Scale
       /\ sig.taxOwed = 2500000 \div Scale
       /\ sig.isValid = 1

\* C19 witness: the scenario as the witness generator evaluates it.
C19_Witness ==
  /\ circuit = "tax"
  /\ by = "generator"
  /\ inp.income = 150000000 \div Scale
  /\ inp.totalDeductions = 20000000 \div Scale
  /\ inp.dependents = 2
  /\ sig.accepted
  /\ sig.taxOwed = 2500000 \div Scale

---------------------------------------------------------------------------
(* Means Test: properties                                                  *)

\* C2: no accepted Means Test witness with totalAssets < totalLiabilities
\* has isEligible = 1.
C2_InconsistentNetWorthNeverEligible ==
  (circuit = "means" /\ inp.totalAssets < inp.totalLiabilities /\ sig.accepted)
    => sig.isEligible # 1

\* C2 witness: assets below liabilities, every comparator decomposed, the
\* eligibility comparator output 1, the net-worth check output 0, and the
\* product constraint rejected the witness.
C2_Witness ==
  /\ circuit = "means"
  /\ inp.totalAssets < inp.totalLiabilities
  /\ sig.decomposed
  /\ sig.dispGtZero = 1
  /\ sig.isEligible = 1
  /\ sig.verifyNetWorth = 0
  /\ ~sig.accepted

\* C8 as stated: with totalAssets < totalLiabilities the circuit has no
\* accepted witness at all.
C8_InconsistentNetWorthUnsatisfiable ==
  (circuit = "means" /\ inp.totalAssets < inp.totalLiabilities)
    => ~sig.accepted

\* The need and the adjusted threshold over the integers, for inputs
\* whose divisions are exact.
ExactMeansInputs ==
  /\ (inp.totalLiabilities - inp.totalAssets) % 10 = 0
  /\ (inp.eligibilityThreshold * inp.dependents) % 10 = 0

IntegerNeed ==
  12 * (inp.monthlyIncome - inp.monthlyExpenses)
    - (inp.totalLiabilities - inp.totalAssets) \div 10

IntegerThreshold ==
  inp.eligibilityThreshold
    + (inp.eligibilityThreshold * inp.dependents) \div 10

\* C8 as amended: with totalAssets < totalLiabilities (and exact
\* divisions) a witness is accepted iff the need is not below the
\* adjusted threshold, and an accepted witness has isEligible = 0 and the
\* wrapped negative net worth as its public output.
C8_InconsistentNetWorthOnlyIneligible ==
  (circuit = "means" /\ inp.totalAssets < inp.totalLiabilities
     /\ ExactMeansInputs)
    => /\ sig.accepted <=> IntegerNeed >= IntegerThreshold
       /\ sig.accepted =>
            /\ sig.isEligible = 0
            /\ Val(sig.netWorth) = inp.totalAssets - inp.totalLiabilities

\* C8 witness: an accepted witness with assets below liabilities.
C8_Witness ==
  /\ circuit = "means"
  /\ inp.totalAssets < inp.totalLiabilities
  /\ ExactMeansInputs
  /\ sig.accepted
  /\ sig.isEligible = 0
  /\ sig.verifyNetWorth = 0

\* C16: in an accepted Means Test witness with monthlyIncome >=
\* monthlyExpenses and totalAssets >= totalLiabilities, isEligible = 1 iff
\* 12 x (income - expenses) + (assets - liabilities)/10 is strictly below
\* threshold + threshold x dependents x 10/100 (both sides times 10 here),
\* and the outputs disposableIncome and netWorth are the two differences;
\* such inputs are accepted whenever the two divisions are exact.
C16_EligibilityFormula ==
  (circuit = "means" /\ inp.monthlyIncome >= inp.monthlyExpenses
     /\ inp.totalAssets >= inp.totalLiabilities)
    => /\ ExactMeansInputs => sig.accepted
       /\ sig.accepted =>
            /\ sig.isEligible \in {0, 1}
            /\ (sig.isEligible = 1) <=>
                 120 * (inp.monthlyIncome - inp.monthlyExpenses)
                   + (inp.totalAssets - inp.totalLiabilities)
                 < 10 * inp.eligibilityThreshold
                   + inp.eligibilityThreshold * inp.dependents
            /\ sig.disposableIncome = inp.monthlyIncome - inp.monthlyExpenses
            /\ sig.netWorth = inp.totalAssets - inp.totalLiabilities

\* C16 witness: an accepted witness whose need equals the adjusted
\* threshold exactly (a positive net worth and a dependent in it): not
\* eligible, the inequality being strict.
C16_Witness ==
  /\ circuit = "means"
  /\ sig.accepted
  /\ inp.monthlyIncome > inp.monthlyExpenses
  /\ inp.totalAssets > inp.totalLiabilities
  /\ inp.dependents > 0
  /\ sig.totalNeed = sig.adjustedThreshold
  /\ sig.isEligible = 0

\* C16 witness of the other side: an accepted, eligible witness with a
\* positive net worth and a raised threshold.
C16_WitnessEligible ==
  /\ circuit = "means"
  /\ sig.accepted
  /\ inp.totalAssets > inp.totalLiabilities
  /\ inp.dependents > 0
  /\ sig.adjustedThreshold > inp.eligibilityThreshold
  /\ sig.isEligible = 1

\* C17: with monthlyExpenses > monthlyIncome the Means Test circuit has no
\* accepted witness.
C17_DisposableUnderflowRejected ==
  (circuit = "means" /\ inp.monthlyExpenses > inp.monthlyIncome)
    => ~sig.accepted

\* C17 witness: expenses above income; the disposable income has wrapped,
\* every comparator decomposes and the eligibility constraint holds, and
\* the witness is rejected by dispGtZero.out === 1 alone.
C17_Witness ==
  /\ circuit = "means"
  /\ inp.monthlyExpenses > inp.monthlyIncome
  /\ Val(sig.disposableIncome) < 0
  /\ sig.decomposed
  /\ MeansEligibilityConstraint(sig.eligibilityProduct, sig.isEligible)
  /\ sig.dispGtZero = 0
  /\ ~sig.accepted

---------------------------------------------------------------------------
(* Divorce Settlement: properties                                          *)

\* C3: in every accepted Divorce Settlement witness alimonyPercentage is
\* 25, plus 5 if wifeIncome = 0, plus 3 if marriageDuration > 10.
C3_AlimonyPercentageRevalidated ==
  (circuit = "divorce" /\ sig.accepted)
    => sig.alimonyPercentage =
         25 + (IF inp.wifeIncome = 0 THEN 5 ELSE 0)
            + (IF inp.marriageDuration > 10 THEN 3 ELSE 0)

\* C4: in every accepted Divorce Settlement witness wifeBonusPercentage
\* lies in 0..100 and the wife's asset share is at most
\* husbandAssets + wifeAssets.
C4_AssetPercentageClamped ==
  (circuit = "divorce" /\ sig.accepted)
    => /\ sig.wifeBonusPercentage \in 0 .. 100
       /\ Val(sig.wifeAssetShare) <= inp.husbandAssets + inp.wifeAssets

\* C5: in every accepted Divorce Settlement witness custodyToWife is 0 or
\* 1, the two direction indicators are booleans that sum to 1, and at
\* most one of the two child-support directions is non-zero.
C5_CustodySelectorGroup ==
  (circuit = "divorce" /\ sig.accepted)
    => /\ inp.custodyToWife \in {0, 1}
       /\ sig.wifeHasCustody \in {0, 1}
       /\ sig.wifeHasCustodyInverse \in {0, 1}
       /\ Add(sig.wifeHasCustody, sig.wifeHasCustodyInverse) = 1
       /\ sig.childSupportFromHusband = 0 \/ sig.childSupportFromWife = 0

\* C6: in every accepted witness both operands of every comparator lie
\* in [0, 2^Bits).
C6_ComparatorOperandsInRange ==
  (circuit = "divorce" /\ sig.accepted)
    => \A c \in sig.comparands : c[1] < 2^Bits /\ c[2] < 2^Bits

---------------------------------------------------------------------------
(* Payment Validation: properties                                          *)

\* The four checks of a payment over the integers.
PaymentIsValid ==
  /\ inp.minAmount <= inp.amount
  /\ inp.amount <= inp.maxAmount
  /\ inp.dailyTotal + inp.amount <= inp.dailyLimit
  /\ inp.amount # 0
  /\ inp.senderIBAN # inp.recipientIBAN

C11_ZeroAmountNeverValid ==
  (circuit = "payment" /\ inp.amount = 0 /\ sig.accepted) => sig.isValid # 1

\* C11 witness: a payment of 0 that passes the range check (minAmount = 0),
\* the daily limit and the self-payment check, accepted with isValid = 0.
C11_Witness ==
  /\ circuit = "payment"
  /\ inp.amount = 0
  /\ inp.minAmount = 0
  /\ sig.rangeValid = 1
  /\ sig.dailyCheck = 1
  /\ sig.isNotSelfPayment = 1
  /\ sig.isPositive = 0
  /\ sig.accepted
  /\ sig.isValid = 0

---------------------------------------------------------------------------
(* Property Transfer: properties                                           *)

\* C12: in every accepted Property Transfer witness effectiveYears is
\* min(ownershipYears, 15), effectiveExemption is min(totalExemption, 100)
\* and 0 <= effectiveExemption <= 100, whatever the prover puts in
\* ownershipYears, isFirstProperty, propertyType and buyerAge.
C12_ExemptionClamped ==
  (circuit = "property" /\ sig.accepted) =>
    /\ Val(sig.effectiveYears) = Min(Val(inp.ownershipYears), maxHoldingPeriod)
    /\ Val(sig.effectiveExemption) = Min(Val(sig.totalExemption), 100)
    /\ 0 <= Val(sig.effectiveExemption)
    /\ Val(sig.effectiveExemption) <= 100

C13_WitnessEligible ==
  /\ circuit = "property"
  /\ sig.accepted
  /\ sig.amlCheckPassed = 1
  /\ sig.isEligible = 1

---------------------------------------------------------------------------
(* Divorce Settlement: validity                                            *)

C14_WitnessValid ==
  /\ circuit = "divorce"
  /\ sig.accepted
  /\ sig.isValid = 1

---------------------------------------------------------------------------
(* Batch Payment Validation: properties                                    *)

\* amounts[1] + ... + amounts[i] over the integers (signed reading).
RECURSIVE SumTo(_, _)
SumTo(amounts, i) ==
  IF i = 0 THEN 0 ELSE SumTo(amounts, i - 1) + Val(amounts[i])

\* Every item up to i is at least the per-payment minimum.
AllAtLeastMin(i) ==
  \A j \in 1 .. i : Val(inp.amounts[j]) >= Val(inp.perPaymentMin)

C15_WitnessValid ==
  /\ circuit = "batch"
  /\ sig.accepted
  /\ Len(inp.amounts) = 3
  /\ sig.validProducts = <<1, 1, 1>>
  /\ sig.isValidBatch = 1

\* C20: an accepted settlement whose monthlyAlimony lies between 25% and
\* 33% of husbandIncome inclusive is within bounds; in particular the
\* generator's maximum case (wife without income, marriage longer than 10
\* years, no reduction, minimumMaintenance not binding) has
\* alimonyPercentage = 33, passes the alimony check and, the other three
\* checks passing, has isValid = 1.
C20_MaximumAlimonyWithinBounds ==
  (circuit = "divorce" /\ sig.accepted) =>
    /\ (/\ inp.husbandIncome * minAlimonyPercentage
             <= 100 * Val(sig.monthlyAlimony)
        /\ 100 * Val(sig.monthlyAlimony)
             <= inp.husbandIncome * maxAlimonyPercentage)
         => sig.alimonyInBounds = 1
    /\ (/\ by = "generator"
        /\ inp.wifeIncome = 0
        /\ inp.marriageDuration > 10
        /\ sig.meetsMinimum = 1
        /\ sig.wifeShareValid = 1
        /\ sig.husbandShareValid = 1
        /\ sig.childSupportReasonable = 1)
         => /\ sig.alimonyPercentage = maxAlimonyPercentage
            /\ sig.alimonyInBounds = 1
            /\ sig.isValid = 1

\* C21: in every accepted Property Transfer witness the stamp-duty rate is
\* the one of the property type (3 residential, 5 commercial, 2
\* agricultural), stampDuty = purchasePrice x rate / 100 and totalTax =
\* capitalGainsTax + stampDuty.
C21_StampDutyRateFixedByType ==
  (circuit = "property" /\ sig.accepted) =>
    /\ 100 * Val(sig.stampDuty)
         = Val(inp.purchasePrice) * StampDutyRateHint(inp.propertyType)
    /\ sig.totalTax = Add(sig.capitalGainsTax, sig.stampDuty)

\* C22: with ownershipYears >= 15 (first-property flag 0 or 1, any buyer
\* age, any capital gain) an accepted Property Transfer witness has
\* exemptionPercentage = 100 and effectiveExemption = 100, hence
\* adjustedGain = 0, capitalGainsTax = 0 and totalTax = stampDuty; the
\* generator's witness is accepted whenever the price is not negative.
C22_FullExemptionAfterFifteenYears ==
  (circuit = "property" /\ Val(inp.ownershipYears) >= maxHoldingPeriod
     /\ inp.isFirstProperty \in {0, 1})
    => /\ (by = "generator" /\ Val(inp.purchasePrice) >= 0) => sig.accepted
       /\ sig.accepted =>
            /\ sig.exemptionPercentage = 100
            /\ sig.effectiveExemption = 100
            /\ sig.adjustedGain = 0
            /\ sig.capitalGainsTax = 0
            /\ sig.totalTax = sig.stampDuty

\* C22 witness: thirty years of ownership, a positive gain and both
\* bonuses (total exemption 175): accepted, no capital-gains tax, and the
\* total tax is the stamp duty.
C22_Witness ==
  /\ circuit = "property"
  /\ by = "generator"
  /\ sig.accepted
  /\ inp.ownershipYears = 30
  /\ Val(sig.capitalGain) > 0
  /\ sig.totalExemption = 175
  /\ sig.effectiveExemption = 100
  /\ sig.capitalGainsTax = 0
  /\ sig.stampDuty > 0
  /\ sig.totalTax = sig.stampDuty

\* C28: in every accepted Property Transfer witness capitalGainsTax >= 0
\* as an integer and totalTax >= stampDuty; a sale below the original
\* price never has a negative capital-gains tax offsetting the stamp duty.
\* Stated here for the witness generator's own hints and inputs that are
\* natural numbers, flags in {0, 1}.
C28_CapitalGainsTaxNonNegative ==
  (circuit = "property" /\ by = "generator" /\ sig.accepted
     /\ Val(inp.purchasePrice) >= 0 /\ Val(inp.ownershipYears) >= 0
     /\ inp.isFirstProperty \in {0, 1})
    => /\ Val(sig.capitalGainsTax) >= 0
       /\ Val(sig.totalTax) >= Val(sig.stampDuty)

\* C29: in an accepted batch witness isValidBatch = 1 implies
\* perPaymentMin <= amounts[i] <= perPaymentMax for every item i.
C29_PerPaymentMaxEnforced ==
  (circuit = "batch" /\ sig.accepted /\ sig.isValidBatch = 1) =>
    \A i \in 1 .. Len(inp.amounts) :
      /\ Val(inp.perPaymentMin) <= Val(inp.amounts[i])
      /\ Val(inp.amounts[i]) <= Val(inp.perPaymentMax)

---------------------------------------------------------------------------
(* Divorce Settlement: alimony floor and asset outputs                     *)

\* C23: in every accepted Divorce Settlement witness monthlyAlimony =
\* max(alimonyAdjusted, minimumMaintenance), so it is at least the minimum
\* and equals alimonyAdjusted exactly when alimonyAdjusted >= the minimum;
\* alimonyAdjusted is alimonyBase less 30% exactly when wifeIncome >
\* husbandIncome / 2, and alimonyBase otherwise.
C23_AlimonyFloor ==
  (circuit = "divorce" /\ sig.accepted) =>
    LET adjusted == Val(sig.alimonyAdjusted)
        base == Val(sig.alimonyBase)
        monthly == Val(sig.monthlyAlimony)
    IN /\ monthly = Max(adjusted, inp.minimumMaintenance)
       /\ monthly >= inp.minimumMaintenance
       /\ (monthly = adjusted) <=> (adjusted >= inp.minimumMaintenance)
       /\ IF 2 * inp.wifeIncome > inp.husbandIncome
            THEN 100 * adjusted = 70 * base /\ adjusted < base
            ELSE adjusted = base

\* C23 witness: an accepted settlement in which the wife's income reduced
\* the alimony by 30% to below the minimum maintenance, which is then paid.
C23_Witness ==
  /\ circuit = "divorce"
  /\ sig.accepted
  /\ sig.wifeHasIncome = 1
  /\ sig.alimonyReduction > 0
  /\ sig.meetsMinimum = 0
  /\ Val(sig.alimonyAdjusted) < inp.minimumMaintenance
  /\ sig.monthlyAlimony = inp.minimumMaintenance

\* C23 witness of the other side: no reduction, and the adjusted alimony
\* above a positive minimum is what is paid.
C23_WitnessAboveFloor ==
  /\ circuit = "divorce"
  /\ sig.accepted
  /\ sig.wifeHasIncome = 0
  /\ inp.minimumMaintenance > 0
  /\ sig.meetsMinimum = 1
  /\ sig.monthlyAlimony = sig.alimonyBase

\* C30: in every accepted Divorce Settlement witness the public outputs
\* wifeShareAssets and husbandShareAssets are the computed shares: the
\* wife's is (husbandAssets + wifeAssets) x wifeBonusPercentage / 100, the
\* husband's the rest, they add up to the total assets, and totalSettlement
\* = mehrBalance + 24 x monthlyAlimony + wifeShareAssets.
C30_AssetOutputsAreTheShares ==
  (circuit = "divorce" /\ sig.accepted) =>
    /\ sig.wifeShareAssets = sig.wifeAssetShare
    /\ sig.husbandShareAssets = sig.husbandAssetShare
    /\ Add(sig.wifeShareAssets, sig.husbandShareAssets)
         = Add(inp.husbandAssets, inp.wifeAssets)
    /\ sig.totalSettlement
         = Add(Add(sig.mehrBalance, Mul(sig.monthlyAlimony, 24)),
               sig.wifeShareAssets)

---------------------------------------------------------------------------
(* Raast payment library: properties                                       *)

\* C24: submitPayment returns Right, with status RaastSubmitted and a
\* transaction id, only for a request that carries a proof verifyPayment
\* accepts; for a request without a proof it returns Left "Payment
\* verification failed", which carries no request at all.
C24_SubmitOnlyAfterVerification ==
  raast.outcome.isJust =>
    LET payment == raast.request.fromJust
        result == raast.outcome.fromJust
    IN /\ result.either = "Right" <=> verifyPayment(payment)
       /\ result.either = "Right" =>
            /\ payment.zkProof.isJust
            /\ result.value.status = "RaastSubmitted"
            /\ result.value.transactionId.isJust
            /\ result.value.zkProof = payment.zkProof
       /\ ~payment.zkProof.isJust =>
            result = [either |-> "Left",
                      value |-> "Payment verification failed"]

\* C24 witness: a request built by createEncryptedPaymentRequest was
\* submitted and refused.
C24_Witness ==
  /\ raast.request.isJust
  /\ ~raast.request.fromJust.zkProof.isJust
  /\ raast.request.fromJust.status = "RaastPending"
  /\ raast.outcome.isJust
  /\ raast.outcome.fromJust.either = "Left"

\* C24 witness of the other side: a request with its proofs was submitted.
C24_WitnessSubmitted ==
  /\ raast.outcome.isJust
  /\ raast.outcome.fromJust.either = "Right"
  /\ raast.request.fromJust.zkProof.isJust
  /\ raast.outcome.fromJust.value.status = "RaastSubmitted"


---------------------------------------------------------------------------
(* Zcash service: the wallet balance                                       *)

\* C26: under every interleaving of sendPayment calls and disconnect, the
\* balance of the wallet is never negative (every debit subtracts from the
\* mock balance, so the debits of a wallet sum to no more than its initial
\* balance exactly when its balance is not negative).
C26_BalanceNeverNegative ==
  zcash.wallet.isJust => zcash.wallet.fromJust.balance >= 0

---------------------------------------------------------------------------
(* Document viewer: submission                                             *)

\* C25: a document changes only in the turn that resumes the viewer's
\* handler after sendPayment returned a transaction id, and then from
\* PROOF_GENERATED to SUBMITTED with that id as paymentTxId and the law
\* firm's address; when the payment threw, the resuming turn leaves every
\* document as it was; either way the turn sets isSubmitting to false, and
\* every submission that started gets there.
C25_SubmittedOnlyAfterPayment ==
  /\ [][\A id \in DocumentIds :
          documents[id].isJust /\ documents'[id] # documents[id] =>
            /\ zcash.call["viewer"].pc = "returned"
            /\ viewer.id = Just(id)
            /\ documents[id].fromJust.status = "PROOF_GENERATED"
            /\ documents'[id] =
                 Just([status |-> "SUBMITTED",
                       lawFirmAddress |-> Just(lawFirmAddress),
                       paymentTxId |-> Just(zcash.call["viewer"].value)])]_vars
  /\ [][zcash.call["viewer"].pc = "threw"
          /\ zcash'.call["viewer"].pc # "threw" =>
            /\ documents' = documents
            /\ ~viewer'.isSubmitting]_vars
  /\ [][zcash.call["viewer"].pc = "returned"
          /\ zcash'.call["viewer"].pc # "returned" =>
            ~viewer'.isSubmitting]_vars
  /\ (viewer.isSubmitting ~> ~viewer.isSubmitting)

\* C25 witness: a document was submitted, with the transaction id of its
\* payment, and the handler has finished.
C25_Witness ==
  /\ ~viewer.isSubmitting
  /\ \E id \in DocumentIds :
       /\ documents[id].isJust
       /\ documents[id].fromJust.status = "SUBMITTED"
       /\ documents[id].fromJust.paymentTxId \in {Just(t) : t \in TxIds}

\* C25 witness of the other side: the viewer's payment threw for want of
\* balance, and the document is still as it was created.
C25_WitnessThrew ==
  /\ viewer.isSubmitting
  /\ zcash.call["viewer"].pc = "threw"
  /\ zcash.call["viewer"].value = "Insufficient balance"
  /\ documents[viewer.id.fromJust] = Just(NewDocument)

---------------------------------------------------------------------------
(* Encryption service: keys                                                *)

\* C27: the key pair of the service, once stored, is never replaced, and
\* every EncryptedValue that encryptValue returned decrypts with
\* decryptValue to the value that was encrypted.
C27_KeysGeneratedOnce ==
  /\ [][fhe.keys.isJust => fhe'.keys = fhe.keys]_vars
  /\ [](fhe.decrypted.isJust =>
          fhe.decrypted.fromJust.outcome = Just(fhe.decrypted.fromJust.value))
=============================================================================
